---- MODULE Spec2Model ----
(***************************************************************************)
(* A model of the backend of Smart-Video-Learning: the retrieval pipeline  *)
(* of services/semantic_search.py (candidate retrieval, re-ranking,        *)
(* explanations, suggestions), the language-model client of                *)
(* services/llm_service.py, and the video store of api/videos.py with its  *)
(* background processing (services/video_processor.py).                    *)
(***************************************************************************)
EXTENDS Integers, Sequences, FiniteSets, TLC

VARIABLES
    videos_db,    \* api/videos.py videos_db: video id -> status, or "absent"
    upload_files, \* data/videos: the ids of the videos whose file is on disk
    embeddings,   \* data/embeddings: its directories and their .pkl files
    tasks,        \* per video id, the background task and its metadata object
    search,       \* the search_scenes call in flight
    call          \* a single call of one function on drawn inputs

vars == <<videos_db, upload_files, embeddings, tasks, search, call>>

mainVars == <<videos_db, upload_files, embeddings, tasks, search>>

(***************************************************************************)
(* Bounds of the model.                                                    *)
(***************************************************************************)
MaxCand == 2      \* longest candidate list handed to _rerank_with_llm
MaxRespLen == 4   \* longest language-model response, in characters

(***************************************************************************)
(* Text.  A string is a sequence of one-character strings.  "sup2" stands  *)
(* for the one character U+00B2 (superscript two): str.isdigit accepts it  *)
(* and int() rejects it.                                                   *)
(***************************************************************************)
AsciiDigits == <<"0", "1", "2", "3", "4", "5", "6", "7", "8", "9">>

DecimalChars == {AsciiDigits[i] : i \in 1..10}

DigitChars == DecimalChars \cup {"sup2"}

\* Characters str.strip() removes: space, tab, newline.
Whitespace == {" ", "\t", "\n"}

\* The value of one decimal character.
DigitValue(c) == (CHOOSE i \in 1..10 : AsciiDigits[i] = c) - 1

MinOf(S) == CHOOSE x \in S : \A y \in S : x <= y

MaxOf(S) == CHOOSE x \in S : \A y \in S : y <= x

\* str.strip(): leading and trailing whitespace removed.
Strip(s) ==
    LET keep == {i \in 1..Len(s) : s[i] \notin Whitespace}
    IN  IF keep = {} THEN <<>> ELSE SubSeq(s, MinOf(keep), MaxOf(keep))

\* str.split(','): the comma-free pieces in order, empty pieces included.
RECURSIVE Split(_)
Split(s) ==
    LET commas == {i \in 1..Len(s) : s[i] = ","}
    IN  IF commas = {} THEN <<s>>
        ELSE LET k == MinOf(commas)
             IN  <<SubSeq(s, 1, k - 1)>> \o Split(SubSeq(s, k + 1, Len(s)))

\* str.isdigit(): non-empty and every character is a digit character.
IsDigit(s) == Len(s) > 0 /\ \A i \in 1..Len(s) : s[i] \in DigitChars

\* int(s) raises ValueError unless every character is a decimal digit.
IntRaises(s) == Len(s) = 0 \/ \E i \in 1..Len(s) : s[i] \notin DecimalChars

\* int(s) for a string of decimal digits.
RECURSIVE IntOf(_)
IntOf(s) ==
    IF Len(s) = 0 THEN 0
    ELSE 10 * IntOf(SubSeq(s, 1, Len(s) - 1)) + DigitValue(s[Len(s)])

(***************************************************************************)
(* services/llm_service.py                                                 *)
(***************************************************************************)
\* "Unable to generate response at this time."
LLMFallbackText ==
    <<"U", "n", "a", "b", "l", "e", " ", "t", "o", " ",
      "g", "e", "n", "e", "r", "a", "t", "e", " ",
      "r", "e", "s", "p", "o", "n", "s", "e", " ",
      "a", "t", " ", "t", "h", "i", "s", " ", "t", "i", "m", "e", ".">>

\* What the chat-completion endpoint does for one request: it raises, or it
\* answers with a text.
LLMRaises == [raises |-> TRUE, text |-> <<>>]

LLMAnswers(t) == [raises |-> FALSE, text |-> t]

\* LLMService.generate_response: the stripped answer, or the fixed text when
\* anything raised.  It never raises itself.
GenerateResponse(outcome) ==
    IF outcome.raises THEN LLMFallbackText ELSE Strip(outcome.text)

(***************************************************************************)
(* SemanticSearchService._rerank_with_llm                                  *)
(***************************************************************************)
\* [x.strip() for x in ranking_response.strip().split(',')]
StrippedTokens(response) ==
    LET parts == Split(Strip(response))
    IN  [i \in 1..Len(parts) |-> Strip(parts[i])]

\* The tokens the comprehension keeps: if x.strip().isdigit()
DigitTokens(response) == SelectSeq(StrippedTokens(response), IsDigit)

\* int(x.strip()) raises for one of the kept tokens: the except branch runs.
ParseRaises(response) ==
    \E i \in 1..Len(DigitTokens(response)) : IntRaises(DigitTokens(response)[i])

\* Mutant: the indices read as 0-based (the "- 1" forgotten).
ParseRankingsZeroBased(response) ==
    LET toks == DigitTokens(response)
    IN  [i \in 1..Len(toks) |-> IntOf(toks[i])]

\* rankings = [int(x.strip()) - 1 for ... if x.strip().isdigit()]
ParseRankings(response) ==
    LET toks == DigitTokens(response)
    IN  [i \in 1..Len(toks) |-> IntOf(toks[i]) - 1]

\* for rank in rankings: if 0 <= rank < len(candidates): reranked.append(...)
PickedByRanking(rankings, candidates) ==
    LET inRange(r) == 0 <= r /\ r < Len(candidates)
        kept == SelectSeq(rankings, inRange)
    IN  [i \in 1..Len(kept) |-> candidates[kept[i] + 1]]

\* for i, candidate in enumerate(candidates): if i not in used_indices: append
RECURSIVE RemainingFrom(_, _, _)
RemainingFrom(i, used, candidates) ==
    IF i > Len(candidates) THEN <<>>
    ELSE (IF (i - 1) \in used THEN <<>> ELSE <<candidates[i]>>)
         \o RemainingFrom(i + 1, used, candidates)

Remaining(rankings, candidates) ==
    RemainingFrom(1, {rankings[i] : i \in 1..Len(rankings)}, candidates)

\* Mutant: the except branch returns an empty list instead of the candidates.
RerankWithLLMExceptEmpty(candidates, outcome) ==
    IF candidates = <<>> THEN <<>>
    ELSE LET response == GenerateResponse(outcome)
         IN  IF ParseRaises(response) THEN <<>>
             ELSE LET rankings == ParseRankings(response)
                  IN  PickedByRanking(rankings, candidates)
                      \o Remaining(rankings, candidates)

\* The list _rerank_with_llm returns, given what the endpoint does.
RerankWithLLM(candidates, outcome) ==
    IF candidates = <<>> THEN <<>>
    ELSE LET response == GenerateResponse(outcome)
         IN  IF ParseRaises(response) THEN candidates
             ELSE LET rankings == ParseRankings(response)
                  IN  PickedByRanking(rankings, candidates)
                      \o Remaining(rankings, candidates)

(***************************************************************************)
(* Vectors and cosine similarity.  Embeddings are integer vectors; the     *)
(* similarity sklearn's cosine_similarity returns is kept exactly, as the  *)
(* pair (dot product, product of the squared norms): its value is          *)
(* dot / sqrt(norms2), and 0 when either vector is the zero vector.        *)
(***************************************************************************)
Dot(a, b) == a[1] * b[1] + a[2] * b[2] + a[3] * b[3]

CosineSimilarity(q, e) == [dot |-> Dot(q, e), norms2 |-> Dot(q, q) * Dot(e, e)]

\* The sign-preserving square of a similarity, as a fraction n / d with d > 0:
\* x |-> sign(x) * x^2 is increasing, so it orders similarities as they are.
SignedSquare(s) ==
    IF s.norms2 = 0 THEN [n |-> 0, d |-> 1]
    ELSE [n |-> (IF s.dot < 0 THEN -1 ELSE 1) * s.dot * s.dot, d |-> s.norms2]

\* s >= t and s > t, as numbers.
SimGE(s, t) == SignedSquare(s).n * SignedSquare(t).d >= SignedSquare(t).n * SignedSquare(s).d

SimGT(s, t) == ~SimGE(t, s)

\* settings.SIMILARITY_THRESHOLD = 0.7 = ThresholdNum / ThresholdDen
ThresholdNum == 7

ThresholdDen == 10

\* similarity >= 0.7 and similarity > 0.7
AtLeastThreshold(s) ==
    SignedSquare(s).n * ThresholdDen * ThresholdDen
        >= ThresholdNum * ThresholdNum * SignedSquare(s).d

AboveThreshold(s) ==
    SignedSquare(s).n * ThresholdDen * ThresholdDen
        > ThresholdNum * ThresholdNum * SignedSquare(s).d

(***************************************************************************)
(* The embeddings store: data/embeddings/<video_id>/<scene_id>.pkl.  The   *)
(* store is the sequence of its directories in os.listdir order; each      *)
(* directory holds its files in os.listdir order.  A file is               *)
(*   [kind, scene_id, embedding]  with kind                                *)
(*   "pkl"   a readable pickle of {scene_id, embedding, content},          *)
(*   "bad"   a .pkl file whose open, load or use raises,                   *)
(*   "other" a file whose name does not end in .pkl.                       *)
(***************************************************************************)
NoVideoId == "None"     \* video_id = None

EmptyVideoId == ""      \* video_id = "": falsy, like None

\* if video_id: [video_dir] if it exists, else every directory of the store
SearchDirs(store, video_id) ==
    IF video_id # NoVideoId /\ video_id # EmptyVideoId
    THEN SelectSeq(store, LAMBDA d : d.video_id = video_id)
    ELSE store

\* Mutant: the comparison with the threshold is turned around.
PassesThresholdInverted(s) == ~AboveThreshold(s)

\* if similarity >= self.min_similarity
PassesThreshold(s) == AtLeastThreshold(s)

\* Mutant: the except branch is missing, so a file that raises ends the call.
ScanFileUncaught(video_id, f, q) ==
    IF f.kind = "other" THEN [escaped |-> FALSE, found |-> <<>>]
    ELSE IF f.kind = "bad" THEN [escaped |-> TRUE, found |-> <<>>]
         ELSE LET sim == CosineSimilarity(q, f.embedding)
              IN  [escaped |-> FALSE,
                   found |-> IF PassesThreshold(sim)
                             THEN <<[video_id |-> video_id, scene_id |-> f.scene_id,
                                     similarity |-> sim]>>
                             ELSE <<>>]

\* One pass of the inner loop: the candidate a file adds, if any, and whether
\* an exception escapes the pass.  A file that is not a .pkl file is passed
\* over; a file that raises is caught by the except branch and adds nothing.
ScanFile(video_id, f, q) ==
    IF f.kind = "other" THEN [escaped |-> FALSE, found |-> <<>>]
    ELSE IF f.kind = "bad" THEN [escaped |-> FALSE, found |-> <<>>]
         ELSE LET sim == CosineSimilarity(q, f.embedding)
              IN  [escaped |-> FALSE,
                   found |-> IF PassesThreshold(sim)
                             THEN <<[video_id |-> video_id, scene_id |-> f.scene_id,
                                     similarity |-> sim]>>
                             ELSE <<>>]

RECURSIVE ScanFiles(_, _, _)
ScanFiles(video_id, files, q) ==
    IF files = <<>> THEN <<>>
    ELSE ScanFile(video_id, Head(files), q).found
         \o ScanFiles(video_id, Tail(files), q)

RECURSIVE ScanDirs(_, _)
ScanDirs(dirs, q) ==
    IF dirs = <<>> THEN <<>>
    ELSE ScanFiles(Head(dirs).video_id, Head(dirs).files, q) \o ScanDirs(Tail(dirs), q)

\* list.sort(key=similarity, reverse=True): descending and stable.
RECURSIVE InsertBySimilarity(_, _)
InsertBySimilarity(c, sorted) ==
    IF sorted = <<>> THEN <<c>>
    ELSE IF SimGE(Head(sorted).similarity, c.similarity)
         THEN <<Head(sorted)>> \o InsertBySimilarity(c, Tail(sorted))
         ELSE <<c>> \o sorted

RECURSIVE SortBySimilarity(_)
SortBySimilarity(cands) ==
    IF cands = <<>> THEN <<>>
    ELSE InsertBySimilarity(cands[Len(cands)],
                            SortBySimilarity(SubSeq(cands, 1, Len(cands) - 1)))

\* Mutant: the cut keeps one item too few.
SliceToOneShort(s, n) ==
    IF n >= 1 THEN SubSeq(s, 1, IF n - 1 < Len(s) THEN n - 1 ELSE Len(s))
    ELSE <<>>

\* s[:n] of Python: the first n items, or all but the last -n when n < 0.
SliceTo(s, n) ==
    IF n >= 0 THEN SubSeq(s, 1, IF n < Len(s) THEN n ELSE Len(s))
    ELSE IF Len(s) + n > 0 THEN SubSeq(s, 1, Len(s) + n) ELSE <<>>

\* SemanticSearchService._find_candidate_scenes
FindCandidateScenes(store, q, video_id, max_results) ==
    SliceTo(SortBySimilarity(ScanDirs(SearchDirs(store, video_id), q)), max_results)

\* Whether an exception escapes _find_candidate_scenes.
FindRaises(store, q, video_id) ==
    LET dirs == SearchDirs(store, video_id)
    IN  \E i \in 1..Len(dirs) : \E j \in 1..Len(dirs[i].files) :
            ScanFile(dirs[i].video_id, dirs[i].files[j], q).escaped

(***************************************************************************)
(* Inputs of the single-function specifications.                           *)
(***************************************************************************)
ResponseChars == {"0", "1", "2", ",", " ", "x", "sup2"}

RECURSIVE TextsUpTo(_)
TextsUpTo(n) ==
    IF n = 0 THEN {<<>>}
    ELSE LET shorter == TextsUpTo(n - 1)
         IN  shorter \cup {Append(t, c) : t \in shorter, c \in ResponseChars}

LLMOutcomes == {LLMRaises} \cup {LLMAnswers(t) : t \in TextsUpTo(MaxRespLen)}

\* Candidate lists: distinct candidates, named 1..MaxCand, in any order.
CandidateLists ==
    {s \in UNION {[1..n -> 1..MaxCand] : n \in 0..MaxCand} :
        \A i, j \in 1..Len(s) : i # j => s[i] # s[j]}

\* The video ids (uuid4 strings), in the order uploads draw them.
VideoIdSeq == <<"v1", "v2">>

VideoIds == {VideoIdSeq[k] : k \in 1..Len(VideoIdSeq)}

MaxFiles == 3     \* most files in the whole embeddings store
MaxResults == 2   \* largest max_results drawn

\* Stored vectors: against the query <<1, 1, 0>> their similarities are 1,
\* exactly 0.7 and 0.
EmbeddingVectors == {<<1, 1, 0>>, <<3, 4, 5>>, <<0, 0, 1>>}

QueryVectors == {<<1, 1, 0>>, <<1, 0, 0>>}

FileContents ==
    {[kind |-> "pkl", embedding |-> e] : e \in EmbeddingVectors}
        \cup {[kind |-> "bad", embedding |-> <<>>],
              [kind |-> "other", embedding |-> <<>>]}

\* The listings of k files; the i-th file listed is scene i.
ListingsOfLen(k) ==
    {[i \in 1..k |-> [kind |-> c[i].kind, scene_id |-> i,
                      embedding |-> c[i].embedding]] : c \in [1..k -> FileContents]}

Listings == UNION {ListingsOfLen(k) : k \in 0..MaxFiles}

\* Every store of at most MaxFiles files over the directories of VideoIds, in
\* either listing order.
Stores ==
    {<<>>}
        \cup {<<[video_id |-> v, files |-> l]>> : v \in VideoIds, l \in Listings}
        \cup {<<[video_id |-> p[1], files |-> ls[1]], [video_id |-> p[2], files |-> ls[2]]>> :
                p \in {x \in VideoIds \X VideoIds : x[1] # x[2]},
                ls \in {y \in Listings \X Listings : Len(y[1]) + Len(y[2]) <= MaxFiles}}

VideoIdArgs == {NoVideoId, EmptyVideoId} \cup VideoIds

MaxResultsArgs == (-1)..MaxResults

NoCall == [op |-> "none"]

NoSearch == [pc |-> "idle"]

NoTask == [pc |-> "none", status |-> "none", n |-> 0, i |-> 0,
           absorbed |-> FALSE]

MainIdle ==
    /\ videos_db = [v \in VideoIds |-> "absent"]
    /\ upload_files = {}
    /\ embeddings = <<>>
    /\ tasks = [v \in VideoIds |-> NoTask]
    /\ search = NoSearch

(***************************************************************************)
(* SpecRerank: _rerank_with_llm applied to every drawn candidate list and  *)
(* endpoint outcome.                                                       *)
(***************************************************************************)
InitRerank ==
    /\ MainIdle
    /\ call \in {[op |-> "rerank", pc |-> "start", candidates |-> c,
                  outcome |-> o, result |-> <<>>] :
                    c \in CandidateLists, o \in LLMOutcomes}

RerankCall ==
    /\ call.op = "rerank"
    /\ call.pc = "start"
    /\ call' = [call EXCEPT !.pc = "done",
                            !.result = RerankWithLLM(call.candidates, call.outcome)]
    /\ UNCHANGED mainVars

NextRerank == RerankCall

SpecRerank == InitRerank /\ [][NextRerank]_vars

(***************************************************************************)
(* Properties of _rerank_with_llm (SpecRerank).                            *)
(***************************************************************************)
RerankDone == call.op = "rerank" /\ call.pc = "done"

\* The text _rerank_with_llm parses in the call at hand.
RerankResponse == GenerateResponse(call.outcome)

\* A token that is a number: one or more decimal digits.
IsNumber(tok) == Len(tok) > 0 /\ \A i \in 1..Len(tok) : tok[i] \in DecimalChars

\* The comma-separated tokens of a text, trimmed.
TokensOf(text) ==
    LET parts == Split(Strip(text))
    IN  [i \in 1..Len(parts) |-> Strip(parts[i])]

\* The 1-based indices a text names, in order: the values of its number tokens.
IndicesNamed(text) ==
    LET nums == SelectSeq(TokensOf(text), IsNumber)
    IN  [i \in 1..Len(nums) |-> IntOf(nums[i])]

\* The order the spec describes: the candidates named by the in-range indices,
\* in the order of the text, then every candidate not mentioned, in input order.
DescribedOrder(candidates, text) ==
    LET idx == IndicesNamed(text)
        ok(k) == 1 <= k /\ k <= Len(candidates)
        named == SelectSeq(idx, ok)
        mentioned == {idx[i] : i \in 1..Len(idx)}
        notMentioned(k) == k \notin mentioned
        rest == SelectSeq([k \in 1..Len(candidates) |-> k], notMentioned)
    IN  [i \in 1..Len(named) |-> candidates[named[i]]]
        \o [i \in 1..Len(rest) |-> candidates[rest[i]]]

\* A token that str.isdigit accepts and int() rejects.
HasUnconvertibleDigitToken(text) ==
    \E i \in 1..Len(TokensOf(text)) :
        LET tok == TokensOf(text)[i]
        IN  /\ Len(tok) > 0
            /\ \A j \in 1..Len(tok) : tok[j] \in DigitChars
            /\ ~IsNumber(tok)

Occurrences(x, s) == Cardinality({i \in 1..Len(s) : s[i] = x})

IsPermutationOf(out, in) ==
    /\ Len(out) = Len(in)
    /\ \A i \in 1..Len(in) : Occurrences(in[i], out) = 1

\* C1: the list returned by _rerank_with_llm is a permutation of the input
\* candidates: same length, each candidate exactly once.
C1_RerankIsPermutation ==
    RerankDone => IsPermutationOf(call.result, call.candidates)

\* C2 (as claimed): the result is the candidates named by the in-range indices
\* of the response, in response order, followed by every candidate whose index
\* was not mentioned, in original order -- for every response.
C2_RerankOrderAsClaimed ==
    (RerankDone /\ call.candidates # <<>>)
        => call.result = DescribedOrder(call.candidates, RerankResponse)

\* C2 (amended): the described order is returned whenever every token that
\* isdigit accepts converts with int(); when one does not (such as U+00B2)
\* the candidates come back in their original order.
C2_RerankOrderAmended ==
    (RerankDone /\ call.candidates # <<>>)
        => IF HasUnconvertibleDigitToken(RerankResponse)
           THEN call.result = call.candidates
           ELSE call.result = DescribedOrder(call.candidates, RerankResponse)

\* C2 witness: a response naming index 2 and the out-of-range index 0 puts the
\* second of two candidates first and appends the unmentioned first one.
C2_Witness ==
    /\ RerankDone
    /\ Len(call.candidates) = 2
    /\ ~call.outcome.raises
    /\ IndicesNamed(RerankResponse) = <<2, 0>>
    /\ call.result = <<call.candidates[2], call.candidates[1]>>

\* C3 (as claimed): when the language-model call fails, or at least one token
\* of the response is not a number, the candidates are returned in their
\* original order.
C3_FallbackAsClaimed ==
    (RerankDone /\ call.candidates # <<>>)
        => ((\/ call.outcome.raises
             \/ \E i \in 1..Len(TokensOf(RerankResponse)) :
                    ~IsNumber(TokensOf(RerankResponse)[i]))
            => call.result = call.candidates)

\* C3 (amended): when the language-model call fails, or no token of the
\* response is a number, or a token that isdigit accepts cannot be converted,
\* the candidates are returned in their original order.  (A token that is not
\* a number is otherwise skipped and the numbers around it still reorder.)
C3_FallbackAmended ==
    (RerankDone /\ call.candidates # <<>>)
        => ((\/ call.outcome.raises
             \/ \A i \in 1..Len(TokensOf(RerankResponse)) :
                    ~IsNumber(TokensOf(RerankResponse)[i])
             \/ HasUnconvertibleDigitToken(RerankResponse))
            => call.result = call.candidates)

\* C3 witness: the response names index 2 first and holds a digit token int()
\* rejects; the two candidates come back in their original order.
C3_Witness ==
    /\ RerankDone
    /\ Len(call.candidates) = 2
    /\ ~call.outcome.raises
    /\ Len(IndicesNamed(RerankResponse)) > 0
    /\ IndicesNamed(RerankResponse)[1] = 2
    /\ HasUnconvertibleDigitToken(RerankResponse)
    /\ call.result = call.candidates


(***************************************************************************)
(* SpecFind: _find_candidate_scenes applied to every drawn store, query    *)
(* vector, video_id and max_results.                                       *)
(***************************************************************************)
InitFind ==
    /\ MainIdle
    /\ call \in {[op |-> "find", pc |-> "start", store |-> st, q |-> q,
                  video_id |-> v, max_results |-> n,
                  raised |-> FALSE, result |-> <<>>] :
                    st \in Stores, q \in QueryVectors,
                    v \in VideoIdArgs, n \in MaxResultsArgs}

FindCall ==
    /\ call.op = "find"
    /\ call.pc = "start"
    /\ call' = [call EXCEPT
                  !.pc = "done",
                  !.raised = FindRaises(call.store, call.q, call.video_id),
                  !.result = FindCandidateScenes(call.store, call.q,
                                                 call.video_id, call.max_results)]
    /\ UNCHANGED mainVars

NextFind == FindCall

SpecFind == InitFind /\ [][NextFind]_vars

(***************************************************************************)
(* Properties of _find_candidate_scenes (SpecFind).                        *)
(***************************************************************************)
FindDone == call.op = "find" /\ call.pc = "done"

\* The directories the call is asked to search: the named video's, or all.
InScope(d) ==
    (call.video_id \in VideoIds) => d.video_id = call.video_id

\* The stored vector files in scope that can be read: <<directory, file>>.
StoredInScope ==
    UNION {{<<call.store[i].video_id, call.store[i].files[j]>> :
                j \in {k \in 1..Len(call.store[i].files) :
                          call.store[i].files[k].kind = "pkl"}} :
            i \in {k \in 1..Len(call.store) : InScope(call.store[k])}}

\* The similarity of a stored scene to the query vector of the call.
SimilarityToQuery(sf) == CosineSimilarity(call.q, sf[2].embedding)

\* The stored scene a returned candidate stands for.
StoredSceneOf(c) ==
    CHOOSE sf \in StoredInScope :
        sf[1] = c.video_id /\ sf[2].scene_id = c.scene_id

IsStored(c) ==
    \E sf \in StoredInScope : sf[1] = c.video_id /\ sf[2].scene_id = c.scene_id

Returned(sf) ==
    \E i \in 1..Len(call.result) :
        call.result[i].video_id = sf[1] /\ call.result[i].scene_id = sf[2].scene_id

\* The stored scenes that pass the code's filter.
Eligible == {sf \in StoredInScope : AtLeastThreshold(SimilarityToQuery(sf))}

\* C4 (as claimed): every returned candidate has a similarity to the query
\* vector strictly greater than the threshold.
C4_AboveThresholdAsClaimed ==
    FindDone => \A i \in 1..Len(call.result) :
        /\ IsStored(call.result[i])
        /\ AboveThreshold(SimilarityToQuery(StoredSceneOf(call.result[i])))

\* C4 (amended): every returned candidate has a similarity to the query
\* vector that is at least the threshold; no scene below it is returned.
C4_AtLeastThresholdAmended ==
    FindDone => \A i \in 1..Len(call.result) :
        /\ IsStored(call.result[i])
        /\ AtLeastThreshold(SimilarityToQuery(StoredSceneOf(call.result[i])))

\* C4 witness: a scene exactly at the threshold is returned while a readable
\* scene below the threshold is in scope and left out.
C4_Witness ==
    /\ FindDone
    /\ \E i \in 1..Len(call.result) :
          ~AboveThreshold(SimilarityToQuery(StoredSceneOf(call.result[i])))
    /\ \E sf \in StoredInScope :
          ~AtLeastThreshold(SimilarityToQuery(sf)) /\ ~Returned(sf)

\* C5: the result has at most max_results entries, is ordered by
\* non-increasing similarity, and no eligible scene left out has a higher
\* similarity than a returned one.  (Stated for the calls that return at
\* least one candidate.)
C5_TopNByScore ==
    (FindDone /\ call.result # <<>>) =>
        /\ Len(call.result) <= call.max_results
        /\ \A i, j \in 1..Len(call.result) :
              i < j => SimGE(call.result[i].similarity, call.result[j].similarity)
        /\ \A sf \in Eligible : ~Returned(sf) =>
              \A i \in 1..Len(call.result) :
                  ~SimGT(SimilarityToQuery(sf), call.result[i].similarity)

\* C5, for a max_results that is not negative: the same three properties.
C5_TopNWhenNotNegative ==
    (FindDone /\ call.max_results >= 0) =>
        /\ Len(call.result) <= call.max_results
        /\ \A i, j \in 1..Len(call.result) :
              i < j => SimGE(call.result[i].similarity, call.result[j].similarity)
        /\ \A sf \in Eligible : ~Returned(sf) =>
              \A i \in 1..Len(call.result) :
                  ~SimGT(SimilarityToQuery(sf), call.result[i].similarity)

\* C6 (as claimed): every stored scene in scope whose similarity is above the
\* threshold appears in the returned list.  (Stated for max_results >= 1.)
C6_InclusionAsClaimed ==
    (FindDone /\ call.max_results >= 1) => \A sf \in StoredInScope :
        AboveThreshold(SimilarityToQuery(sf)) => Returned(sf)

\* C6 (amended): every stored scene in scope whose similarity is above the
\* threshold appears in the returned list whenever the scenes in scope that
\* pass the filter number at most max_results.
C6_InclusionAmended ==
    (FindDone /\ Cardinality(Eligible) <= call.max_results) =>
        \A sf \in StoredInScope :
            AboveThreshold(SimilarityToQuery(sf)) => Returned(sf)

\* C6 witness: exactly max_results = 2 scenes pass the filter, one of them
\* above the threshold, and both are returned.
C6_Witness ==
    /\ FindDone
    /\ call.max_results = 2
    /\ Cardinality(Eligible) = 2
    /\ \E sf \in Eligible : AboveThreshold(SimilarityToQuery(sf))
    /\ \A sf \in Eligible : Returned(sf)

\* The store of the call with the files that raise removed; the other files
\* keep their names and their listing order.
StoreWithoutBadFiles ==
    [i \in 1..Len(call.store) |->
        [call.store[i] EXCEPT
            !.files = SelectSeq(call.store[i].files, LAMBDA f : f.kind # "bad")]]

\* C7: a stored vector file that is missing, unreadable or malformed is
\* skipped: the call does not raise and returns exactly what it returns for
\* the store without that file.
C7_BadFilesSkipped ==
    FindDone =>
        /\ ~call.raised
        /\ call.result = FindCandidateScenes(StoreWithoutBadFiles, call.q,
                                             call.video_id, call.max_results)

\* C7 witness: a directory lists a file that raises before a readable one,
\* and the readable one is returned.
C7_Witness ==
    /\ FindDone
    /\ \E i \in 1..Len(call.store) :
          /\ InScope(call.store[i])
          /\ Len(call.store[i].files) >= 2
          /\ call.store[i].files[1].kind = "bad"
          /\ call.store[i].files[2].kind = "pkl"
          /\ Returned(<<call.store[i].video_id, call.store[i].files[2]>>)

(***************************************************************************)
(* Spec: uploads, background processing, deletion and searches, one        *)
(* event-loop step at a time.  A step runs from one suspension point       *)
(* (an await on a network call) to the next.                               *)
(***************************************************************************)
MaxScenes == 2    \* most scenes scene detection yields for one video

\* The query vectors, language-model outcomes and arguments drawn in Spec.
SearchQueryVectors == {<<1, 0, 0>>}

SearchVideoIdArgs == {NoVideoId} \cup VideoIds

MaxSearchResults == 1   \* largest query.max_results drawn

SearchMaxResultsArgs == (-1)..MaxSearchResults

\* The vectors the embedding service returns for the scenes of a video.
SceneVectors == {<<1, 1, 0>>}

RerankOutcomes == {LLMRaises, LLMAnswers(<<"2", ",", "1">>)}

ExplainOutcomes == {LLMRaises, LLMAnswers(<<"o", "k">>)}

\* The files of video v's directory, or none when it does not exist.
HasDir(store, v) == \E i \in 1..Len(store) : store[i].video_id = v

\* VideoProcessor._store_embedding: makedirs(exist_ok=True), then the pickle
\* written to <scene_id>.pkl, replacing a file of that name.
StoreEmbedding(store, v, scene_id, e) ==
    LET file == [kind |-> "pkl", scene_id |-> scene_id, embedding |-> e]
        put(files) ==
            IF \E j \in 1..Len(files) : files[j].scene_id = scene_id
            THEN [j \in 1..Len(files) |->
                    IF files[j].scene_id = scene_id THEN file ELSE files[j]]
            ELSE Append(files, file)
    IN  IF HasDir(store, v)
        THEN [i \in 1..Len(store) |->
                IF store[i].video_id = v
                THEN [store[i] EXCEPT !.files = put(store[i].files)]
                ELSE store[i]]
        ELSE Append(store, [video_id |-> v, files |-> <<file>>])

\* shutil.rmtree(embeddings_dir) when it exists
RemoveDir(store, v) == SelectSeq(store, LAMBDA d : d.video_id # v)

\* uuid4(): an id no upload was given before.
FreshId(v) ==
    \E k \in 1..Len(VideoIdSeq) :
        /\ v = VideoIdSeq[k]
        /\ tasks[v].pc = "none"
        /\ \A j \in 1..(k - 1) : tasks[VideoIdSeq[j]].pc # "none"

\* metadata.status = s: the record of videos_db is the same object while the
\* id is in videos_db.
SetStatus(db, v, s) == IF db[v] = "absent" THEN db ELSE [db EXCEPT ![v] = s]

Init ==
    /\ MainIdle
    /\ call = NoCall

\* upload_video: the file saved, the record stored with status uploading, the
\* background task scheduled.
UploadVideo(v) ==
    /\ FreshId(v)
    /\ upload_files' = upload_files \cup {v}
    /\ videos_db' = [videos_db EXCEPT ![v] = "uploading"]
    /\ tasks' = [tasks EXCEPT ![v] = [pc |-> "scheduled", status |-> "uploading",
                                       n |-> 0, i |-> 0, absorbed |-> FALSE]]
    /\ UNCHANGED <<embeddings, search, call>>

\* Mutant: the except branch stores the record with the status it had when
\* it was uploaded.
TaskFailsStoresStale(v, a) ==
    /\ tasks' = [tasks EXCEPT ![v] = [@ EXCEPT !.pc = "finished",
                                               !.status = "uploading",
                                               !.absorbed = @ \/ a]]
    /\ videos_db' = [videos_db EXCEPT ![v] = "uploading"]

\* Mutant: the except branch only prints; status and record stay as they
\* are.
TaskFailsSilently(v, a) ==
    /\ tasks' = [tasks EXCEPT ![v] = [@ EXCEPT !.pc = "finished",
                                               !.absorbed = @ \/ a]]
    /\ videos_db' = videos_db

\* process_video_background, except branch: metadata.status = FAILED and
\* videos_db[video_id] = metadata.
TaskFails(v, a) ==
    /\ tasks' = [tasks EXCEPT ![v] = [@ EXCEPT !.pc = "finished",
                                               !.status = "failed",
                                               !.absorbed = @ \/ a]]
    /\ videos_db' = [videos_db EXCEPT ![v] = "failed"]

\* process_video, after the last embedding: metadata.status = INDEXED, then
\* videos_db[video_id] = processed_video.metadata.
TaskSucceeds(v, a) ==
    /\ tasks' = [tasks EXCEPT ![v] = [@ EXCEPT !.pc = "finished",
                                               !.status = "indexed",
                                               !.absorbed = @ \/ a]]
    /\ videos_db' = [videos_db EXCEPT ![v] = "indexed"]

\* Whether a step of the pipeline raised and was answered by a fallback:
\* _extract_transcript (empty transcript), _detect_scenes (scenes of 30
\* seconds), _generate_scene_metadata (a default description) and
\* generate_embedding (a random vector) all catch what they raise.
AbsorbedOutcomes == BOOLEAN

\* The task's first step: status PROCESSING, the upload to the video platform,
\* the transcript, the scene detection and the scene descriptions.  The
\* upload (or the fallback of the scene detection) may raise; n scenes are
\* found otherwise.  None of these steps suspends the task when no scene has
\* a transcript, so the step is one action.
TaskStart(v) ==
    /\ tasks[v].pc = "scheduled"
    /\ \E a \in AbsorbedOutcomes :
          \/ /\ TaskFails(v, a)
             /\ UNCHANGED embeddings
          \/ /\ TaskSucceeds(v, a)
             /\ UNCHANGED embeddings
          \/ /\ \E n \in 1..MaxScenes :
                   tasks' = [tasks EXCEPT ![v] = [pc |-> "embedding",
                                                   status |-> "processing",
                                                   n |-> n, i |-> 1,
                                                   absorbed |-> a]]
             /\ videos_db' = SetStatus(videos_db, v, "processing")
             /\ UNCHANGED embeddings
    /\ UNCHANGED <<upload_files, search, call>>

\* _generate_embeddings, one pass of its loop after the await: the embedding
\* (or the random vector standing in for it) stored, or the write raises;
\* after the last one the video is indexed.
TaskEmbed(v) ==
    /\ tasks[v].pc = "embedding"
    /\ \E a \in AbsorbedOutcomes :
          \/ /\ TaskFails(v, a)
             /\ UNCHANGED embeddings
          \/ /\ \E e \in SceneVectors :
                   embeddings' = StoreEmbedding(embeddings, v, tasks[v].i, e)
             /\ IF tasks[v].i = tasks[v].n
                THEN TaskSucceeds(v, a)
                ELSE /\ tasks' = [tasks EXCEPT ![v] =
                                    [@ EXCEPT !.i = @ + 1,
                                              !.absorbed = @ \/ a]]
                     /\ UNCHANGED videos_db
    /\ UNCHANGED <<upload_files, search, call>>

\* delete_video, when nothing raises: the file, the embeddings directory and
\* the record removed.
DeleteVideo(v) ==
    /\ videos_db[v] # "absent"
    /\ upload_files' = upload_files \ {v}
    /\ embeddings' = RemoveDir(embeddings, v)
    /\ videos_db' = [videos_db EXCEPT ![v] = "absent"]
    /\ UNCHANGED <<tasks, search, call>>

\* _generate_suggestions raises AttributeError at results[0].scene when there
\* is a result: SearchResult (models/query.py) declares no field scene, so
\* the scene= argument of its constructor is dropped.
SuggestionsRaise(results) == results # <<>>

\* "This segment contains relevant educational content for your question.":
\* what _generate_scene_explanation returns when generate_response raises.
SceneExplanationFallback ==
    <<"T", "h", "i", "s", " ", "s", "e", "g", "m", "e", "n", "t", " ",
      "c", "o", "n", "t", "a", "i", "n", "s", " ", "r", "e", "l", "e",
      "v", "a", "n", "t", " ", "e", "d", "u", "c", "a", "t", "i", "o",
      "n", "a", "l", " ", "c", "o", "n", "t", "e", "n", "t", " ", "f",
      "o", "r", " ", "y", "o", "u", "r", " ", "q", "u", "e", "s", "t",
      "i", "o", "n", ".">>

\* _generate_scene_explanation: the stripped response.  generate_response
\* catches every exception itself, so the except branch never runs.
GenerateSceneExplanation(outcome) == Strip(GenerateResponse(outcome))

\* The SearchResult built for a candidate.
ResultFor(c, explanation) ==
    [video_id |-> c.video_id, scene_id |-> c.scene_id,
     relevance_score |-> c.similarity, explanation |-> explanation]

\* search_scenes up to its first language-model call: the query embedded and
\* the candidates retrieved with max_results * 2.  Without candidates the
\* call returns at once.
SearchFind(q, vid, n) ==
    /\ search.pc = "idle"
    /\ LET cands == FindCandidateScenes(embeddings, q, vid, n * 2)
       IN  search' = [pc |-> IF cands = <<>> THEN "done" ELSE "rerank",
                      q |-> q, video_id |-> vid, max_results |-> n,
                      candidates |-> cands, final |-> <<>>, results |-> <<>>,
                      rerank_calls |-> 0, explain_calls |-> 0,
                      suggest_calls |-> 0, llm_raised |-> <<>>]
    /\ UNCHANGED <<videos_db, upload_files, embeddings, tasks, call>>

\* The rerank call answered: ranked_results[:query.max_results] kept.  With
\* nothing kept there is nothing to explain or to suggest from.
SearchRerank(outcome) ==
    /\ search.pc = "rerank"
    /\ LET final == SliceTo(RerankWithLLM(search.candidates, outcome),
                            search.max_results)
       IN  search' = [search EXCEPT
                        !.pc = IF final = <<>> THEN "done" ELSE "explain",
                        !.final = final,
                        !.rerank_calls = @ + 1,
                        !.llm_raised = Append(@, outcome.raises)]
    /\ UNCHANGED <<videos_db, upload_files, embeddings, tasks, call>>

\* One explanation call answered; after the last one _generate_suggestions
\* runs up to its own language-model call.
SearchExplain(outcome) ==
    /\ search.pc = "explain"
    /\ LET c == search.final[Len(search.results) + 1]
           results == Append(search.results,
                             ResultFor(c, GenerateSceneExplanation(outcome)))
       IN  search' = [search EXCEPT
                        !.pc = IF Len(results) < Len(search.final) THEN "explain"
                               ELSE IF SuggestionsRaise(results) THEN "raised"
                               ELSE "suggest",
                        !.results = results,
                        !.explain_calls = @ + 1,
                        !.llm_raised = Append(@, outcome.raises)]
    /\ UNCHANGED <<videos_db, upload_files, embeddings, tasks, call>>

\* The caller has its answer (a response, or HTTP 500); the next search.
SearchReturn ==
    /\ search.pc \in {"done", "raised"}
    /\ search' = NoSearch
    /\ UNCHANGED <<videos_db, upload_files, embeddings, tasks, call>>

Next ==
    \/ \E v \in VideoIds : UploadVideo(v)
    \/ \E v \in VideoIds : TaskStart(v)
    \/ \E v \in VideoIds : TaskEmbed(v)
    \/ \E v \in VideoIds : DeleteVideo(v)
    \/ \E q \in SearchQueryVectors, vid \in SearchVideoIdArgs,
          n \in SearchMaxResultsArgs : SearchFind(q, vid, n)
    \/ \E o \in RerankOutcomes : SearchRerank(o)
    \/ \E o \in ExplainOutcomes : SearchExplain(o)
    \/ SearchReturn

Spec == Init /\ [][Next]_vars

(***************************************************************************)
(* Properties of search_scenes among uploads, processing and deletion     *)
(* (Spec).                                                                 *)
(***************************************************************************)
SearchEnded == search.pc \in {"done", "raised"}

ScenesOf(s) == [i \in 1..Len(s) |-> <<s[i].video_id, s[i].scene_id>>]

\* C8: a search with a video_id returns only candidates of that video, and
\* none when the video has no stored vectors; a search without one returns
\* only candidates of videos whose status is indexed when the candidates are
\* retrieved.
C8_SearchScope ==
    [][(search.pc = "idle" /\ search'.pc # "idle") =>
          LET cands == search'.candidates
          IN  IF search'.video_id \in VideoIds
              THEN /\ \A i \in 1..Len(cands) : cands[i].video_id = search'.video_id
                   /\ ~HasDir(embeddings, search'.video_id) => cands = <<>>
              ELSE \A i \in 1..Len(cands) :
                       videos_db[cands[i].video_id] = "indexed"]_vars

\* C9: a search that has ended with k >= 1 final results returned a
\* response after exactly k explanation calls and exactly one suggestion
\* call; a search without candidates made no language-model call.
C9_CallsPerSearch ==
    SearchEnded =>
        /\ (search.candidates = <<>>) =>
              /\ search.rerank_calls = 0
              /\ search.explain_calls = 0
              /\ search.suggest_calls = 0
        /\ (Len(search.results) >= 1) =>
              /\ search.pc = "done"
              /\ search.explain_calls = Len(search.results)
              /\ search.suggest_calls = 1

\* C10: a search in which a language-model call failed still returns a
\* response; if the rerank call failed the results are the candidates in
\* similarity order, and the explanation of a failed call is a fixed text.
C10_LLMFailureDegrades ==
    (SearchEnded /\ \E k \in 1..Len(search.llm_raised) : search.llm_raised[k]) =>
        /\ search.pc = "done"
        /\ search.llm_raised[1] =>
              ScenesOf(search.results)
                  = ScenesOf(SliceTo(search.candidates, search.max_results))
        /\ \A i \in 1..Len(search.results) :
              search.llm_raised[i + 1] =>
                  search.results[i].explanation
                      \in {LLMFallbackText, SceneExplanationFallback}

(***************************************************************************)
(* validate_time_range (utils/helpers.py).  Times are counted in halves of *)
(* a second, so that fractional times are among the inputs.                *)
(***************************************************************************)
MaxTime == 5      \* largest time drawn, in half seconds

\* The literal 1 (second) of "start_time + 1" and "end_time - 1".
OneSecond == 2

TimeArgs == (0 - MaxTime)..MaxTime

DurationArgs == 0..MaxTime

\* validate_time_range: the pair (start_time, end_time) it returns.
ValidateTimeRange(start_time, end_time, max_duration) ==
    LET s0 == MaxOf({0, start_time})
        e0 == MinOf({max_duration, end_time})
    IN  IF s0 >= e0
        THEN IF s0 + OneSecond <= max_duration
             THEN <<s0, s0 + OneSecond>>
             ELSE <<MaxOf({0, e0 - OneSecond}), e0>>
        ELSE <<s0, e0>>

(***************************************************************************)
(* SpecTimeRange: validate_time_range applied to every drawn triple.       *)
(***************************************************************************)
InitTimeRange ==
    /\ MainIdle
    /\ call \in {[op |-> "validate_time_range", pc |-> "start",
                  start_time |-> s, end_time |-> e, max_duration |-> d,
                  result |-> <<>>] :
                    s \in TimeArgs, e \in TimeArgs, d \in DurationArgs}

TimeRangeCall ==
    /\ call.op = "validate_time_range"
    /\ call.pc = "start"
    /\ call' = [call EXCEPT
                  !.pc = "done",
                  !.result = ValidateTimeRange(call.start_time, call.end_time,
                                               call.max_duration)]
    /\ UNCHANGED mainVars

NextTimeRange == TimeRangeCall

SpecTimeRange == InitTimeRange /\ [][NextTimeRange]_vars

TimeRangeDone == call.op = "validate_time_range" /\ call.pc = "done"

\* C18: for start_time >= 0, end_time >= 0 and a max_duration of at least
\* one second, the returned pair (s, e) satisfies 0 <= s < e <= max_duration.
C18_TimeRangeOrdered ==
    (/\ TimeRangeDone
     /\ call.start_time >= 0
     /\ call.end_time >= 0
     /\ call.max_duration >= OneSecond) =>
        /\ 0 <= call.result[1]
        /\ call.result[1] < call.result[2]
        /\ call.result[2] <= call.max_duration

\* C18, the part that holds: the returned start is never negative and the
\* returned end never exceeds max_duration when end_time is not negative.
C18_TimeRangeClamped ==
    (TimeRangeDone /\ call.end_time >= 0) =>
        /\ 0 <= call.result[1]
        /\ call.result[2] <= call.max_duration

(***************************************************************************)
(* search_videos (api/search.py): POST /api/search.                        *)
(***************************************************************************)
MaxQueryLen == 3  \* longest query text drawn, in characters

QueryChars == {"a", " ", "\t"}

RECURSIVE QueryTextsUpTo(_)
QueryTextsUpTo(n) ==
    IF n = 0 THEN {<<>>}
    ELSE LET shorter == QueryTextsUpTo(n - 1)
         IN  shorter \cup {Append(t, c) : t \in shorter, c \in QueryChars}

\* What search_service.search_scenes does when it is awaited.
ServiceOutcomes == {"returns", "raises"}

\* "not query.query.strip()"
QueryIsBlank(query) == Strip(query) = <<>>

\* The answer of a handler: the HTTP status and detail, and how many times
\* the search service was called.
HttpAnswer(status_code, detail, service_calls) ==
    [status_code |-> status_code, detail |-> detail,
     service_calls |-> service_calls]

\* search_videos: the HTTPException(400) of the blank check is raised inside
\* the try block, caught by "except Exception" and turned into a 500 whose
\* detail is "Search failed: " followed by str() of the caught exception.
SearchVideos(query, outcome) ==
    IF QueryIsBlank(query)
    THEN HttpAnswer(500, "Search failed: 400: Query cannot be empty", 0)
    ELSE IF outcome = "raises"
         THEN HttpAnswer(500, "Search failed", 1)
         ELSE HttpAnswer(200, "", 1)

(***************************************************************************)
(* SpecSearchVideos: search_videos applied to every drawn query text.      *)
(***************************************************************************)
InitSearchVideos ==
    /\ MainIdle
    /\ call \in {[op |-> "search_videos", pc |-> "start", query |-> t,
                  outcome |-> o, answer |-> HttpAnswer(0, "", 0)] :
                    t \in QueryTextsUpTo(MaxQueryLen), o \in ServiceOutcomes}

SearchVideosCall ==
    /\ call.op = "search_videos"
    /\ call.pc = "start"
    /\ call' = [call EXCEPT !.pc = "done",
                            !.answer = SearchVideos(call.query, call.outcome)]
    /\ UNCHANGED mainVars

NextSearchVideos == SearchVideosCall

SpecSearchVideos == InitSearchVideos /\ [][NextSearchVideos]_vars

SearchVideosDone == call.op = "search_videos" /\ call.pc = "done"

\* The query has no character other than whitespace.
OnlyWhitespace(query) == \A i \in 1..Len(query) : query[i] \in Whitespace

\* C13: a query that is empty or only whitespace is answered with status 400
\* and detail "Query cannot be empty", and the search service is not called.
C13_BlankQueryRejected ==
    (SearchVideosDone /\ OnlyWhitespace(call.query)) =>
        /\ call.answer.status_code = 400
        /\ call.answer.detail = "Query cannot be empty"
        /\ call.answer.service_calls = 0

\* C13, the part that holds: for a blank query the search service is not
\* called and the answer is an error.
C13_BlankQueryNotSearched ==
    (SearchVideosDone /\ OnlyWhitespace(call.query)) =>
        /\ call.answer.status_code >= 400
        /\ call.answer.service_calls = 0

(***************************************************************************)
(* The handlers of api/videos.py, each with the answer it gives.           *)
(***************************************************************************)
\* settings.MAX_FILE_SIZE, in bytes
MAX_FILE_SIZE == 500 * 1024 * 1024

\* "video/"
VideoSlash == <<"v", "i", "d", "e", "o", "/">>

\* str.startswith
StartsWith(s, prefix) ==
    Len(s) >= Len(prefix) /\ SubSeq(s, 1, Len(prefix)) = prefix

\* file.content_type: None when the part has no Content-Type header.
NoContentType == [present |-> FALSE, text |-> <<>>]

ContentType(t) == [present |-> TRUE, text |-> t]

ContentTypes ==
    {NoContentType}
    \cup {ContentType(t) : t \in {<<>>,
                                  <<"v", "i", "d", "e", "o">>,
                                  VideoSlash,
                                  VideoSlash \o <<"m">>,
                                  <<"V", "i", "d", "e", "o", "/", "m">>,
                                  <<"t", "/", "m">>}}

FileSizes == {1, MAX_FILE_SIZE, MAX_FILE_SIZE + 1}

\* os.fstat(file.file.fileno()) returns the size or raises.
FstatOutcomes == {"returns", "raises"}

\* Writing the uploaded file: done, or open/read/write raises.
WriteOutcomes == {"written", "raises"}

\* What delete_video meets: nothing raises, os.remove raises, or
\* shutil.rmtree raises.
DeleteOutcomes == {"ok", "remove_raises", "rmtree_raises"}

\* The number of mock scenes get_video_scenes returns: range(5).
MockScenes == 5

NoRequest == [content_type |-> NoContentType, file_size |-> 0]

\* The answer of a handler of api/videos.py.
VideoAnswer(op, v, status_code, detail, video_status, scenes, request) ==
    [op |-> op, video_id |-> v, status_code |-> status_code,
     detail |-> detail, video_status |-> video_status, scenes |-> scenes,
     request |-> request]

\* Mutant: every id is taken to be in videos_db.
KnownVideoAlways(db, v) == v \in DOMAIN db

\* "video_id in videos_db"
KnownVideo(db, v) == db[v] # "absent"

\* Mutant: the prefix is compared without regard to case.
IsVideoTypeAnyCase(ct) ==
    \/ StartsWith(ct.text, VideoSlash)
    \/ StartsWith(ct.text, <<"V", "i", "d", "e", "o", "/">>)

\* file.content_type.startswith('video/')
IsVideoType(ct) == StartsWith(ct.text, VideoSlash)

\* The size check raised HTTPException(400, "File too large").
TooLargeRaised(size, fstat) == fstat = "returns" /\ size > MAX_FILE_SIZE

\* The try block of the size check lets the upload continue: when fstat
\* raised, when the size is within the limit, and also when the size is over
\* the limit, because the HTTPException raised for it is caught by the
\* "except Exception" of the same block, printed and passed over.
SizeCheckPasses(size, fstat) ==
    \/ fstat = "raises"
    \/ fstat = "returns" /\ size <= MAX_FILE_SIZE
    \/ TooLargeRaised(size, fstat)

\* Mutant: the scene list is given for every video that has not failed.
ScenesReadyUnlessFailed(status) == status # "failed"

\* "video_metadata.status != VideoStatus.INDEXED" is false
ScenesReady(status) == status = "indexed"

\* upload_video: the content type and the size checked, an id drawn, the
\* file written, the record stored with status uploading and the background
\* task scheduled.  An id drawn for an upload whose file could not be
\* written is used up.
UploadVideoCall(ct, size, fstat, write) ==
    /\ call.op = "none"
    /\ LET request == [content_type |-> ct, file_size |-> size]
       IN  IF ~ct.present
           THEN /\ call' = VideoAnswer("upload_video", "", 500,
                                       "Internal Server Error", "", 0, request)
                /\ UNCHANGED <<videos_db, upload_files, tasks>>
           ELSE IF ~IsVideoType(ct)
           THEN /\ call' = VideoAnswer("upload_video", "", 400,
                                       "File must be a video", "", 0, request)
                /\ UNCHANGED <<videos_db, upload_files, tasks>>
           ELSE IF ~SizeCheckPasses(size, fstat)
           THEN /\ call' = VideoAnswer("upload_video", "", 400,
                                       "File too large", "", 0, request)
                /\ UNCHANGED <<videos_db, upload_files, tasks>>
           ELSE \E v \in VideoIds :
                   /\ FreshId(v)
                   /\ IF write = "raises"
                      THEN /\ call' = VideoAnswer("upload_video", "", 500,
                                                  "Failed to save file", "", 0,
                                                  request)
                           /\ upload_files' \in {upload_files,
                                                 upload_files \cup {v}}
                           /\ tasks' = [tasks EXCEPT ![v] =
                                          [@ EXCEPT !.pc = "unscheduled"]]
                           /\ UNCHANGED videos_db
                      ELSE /\ call' = VideoAnswer("upload_video", v, 200,
                                                  "", "uploaded", 0, request)
                           /\ upload_files' = upload_files \cup {v}
                           /\ videos_db' = [videos_db EXCEPT ![v] = "uploading"]
                           /\ tasks' = [tasks EXCEPT ![v] =
                                          [pc |-> "scheduled",
                                           status |-> "uploading",
                                           n |-> 0, i |-> 0,
                                           absorbed |-> FALSE]]
    /\ UNCHANGED <<embeddings, search>>

\* get_video
GetVideoCall(v) ==
    /\ call.op = "none"
    /\ call' = IF ~KnownVideo(videos_db, v)
               THEN VideoAnswer("get_video", v, 404, "Video not found", "", 0,
                                NoRequest)
               ELSE VideoAnswer("get_video", v, 200, "", videos_db[v], 0,
                                NoRequest)
    /\ UNCHANGED mainVars

\* get_video_scenes
GetVideoScenesCall(v) ==
    /\ call.op = "none"
    /\ call' = IF ~KnownVideo(videos_db, v)
               THEN VideoAnswer("get_video_scenes", v, 404, "Video not found",
                                "", 0, NoRequest)
               ELSE IF ~ScenesReady(videos_db[v])
               THEN VideoAnswer("get_video_scenes", v, 400,
                                "Video is not ready", videos_db[v], 0,
                                NoRequest)
               ELSE VideoAnswer("get_video_scenes", v, 200, "", videos_db[v],
                                MockScenes, NoRequest)
    /\ UNCHANGED mainVars

\* get_video_status
GetVideoStatusCall(v) ==
    /\ call.op = "none"
    /\ call' = IF ~KnownVideo(videos_db, v)
               THEN VideoAnswer("get_video_status", v, 404, "Video not found",
                                "", 0, NoRequest)
               ELSE VideoAnswer("get_video_status", v, 200, "", videos_db[v],
                                0, NoRequest)
    /\ UNCHANGED mainVars

\* delete_video: the file, the embeddings directory and the record removed,
\* in this order; what raises on the way is answered with 500 and what was
\* removed before stays removed.
DeleteVideoCall(v, outcome) ==
    /\ call.op = "none"
    /\ IF ~KnownVideo(videos_db, v)
       THEN /\ call' = VideoAnswer("delete_video", v, 404, "Video not found",
                                   "", 0, NoRequest)
            /\ UNCHANGED <<videos_db, upload_files, embeddings>>
       ELSE IF outcome = "remove_raises" /\ v \in upload_files
       THEN /\ call' = VideoAnswer("delete_video", v, 500,
                                   "Failed to delete video", videos_db[v], 0,
                                   NoRequest)
            /\ UNCHANGED <<videos_db, upload_files, embeddings>>
       ELSE IF outcome = "rmtree_raises" /\ HasDir(embeddings, v)
       THEN /\ call' = VideoAnswer("delete_video", v, 500,
                                   "Failed to delete video", videos_db[v], 0,
                                   NoRequest)
            /\ upload_files' = upload_files \ {v}
            /\ UNCHANGED <<videos_db, embeddings>>
       ELSE /\ call' = VideoAnswer("delete_video", v, 200,
                                   "Video deleted successfully", "", 0,
                                   NoRequest)
            /\ upload_files' = upload_files \ {v}
            /\ embeddings' = RemoveDir(embeddings, v)
            /\ videos_db' = [videos_db EXCEPT ![v] = "absent"]
    /\ UNCHANGED <<tasks, search>>

\* The answer has gone to the client; the next request.
AnswerSent ==
    /\ call.op # "none"
    /\ call' = NoCall
    /\ UNCHANGED mainVars

NextVideos ==
    \/ \E ct \in ContentTypes, size \in FileSizes,
          fstat \in FstatOutcomes, write \in WriteOutcomes :
            UploadVideoCall(ct, size, fstat, write)
    \/ \E v \in VideoIds : TaskStart(v)
    \/ \E v \in VideoIds : TaskEmbed(v)
    \/ \E v \in VideoIds : GetVideoCall(v)
    \/ \E v \in VideoIds : GetVideoScenesCall(v)
    \/ \E v \in VideoIds : GetVideoStatusCall(v)
    \/ \E v \in VideoIds, o \in DeleteOutcomes : DeleteVideoCall(v, o)
    \/ AnswerSent

SpecVideos == Init /\ [][NextVideos]_vars

\* The background tasks are run to their end: every await of a task returns
\* or raises.
SpecVideosLive ==
    /\ SpecVideos
    /\ \A v \in VideoIds : WF_vars(TaskStart(v)) /\ WF_vars(TaskEmbed(v))

(***************************************************************************)
(* Properties of the handlers of api/videos.py and of the background       *)
(* tasks (SpecVideos, SpecVideosLive).                                     *)
(***************************************************************************)
\* The step is a call of the handler op.
Handled(op) == call.op = "none" /\ call'.op = op

\* The files of video v's directory of the embeddings store.
DirFiles(store, v) ==
    IF HasDir(store, v)
    THEN store[CHOOSE i \in 1..Len(store) : store[i].video_id = v].files
    ELSE <<>>

\* The order of the statuses: uploading, processing, then indexed or failed.
StatusRank(st) ==
    CASE st = "uploading" -> 1
      [] st = "processing" -> 2
      [] st \in {"indexed", "failed"} -> 3

\* C11: upload_video creates the record with status uploading; a record's
\* status only moves forward in the order uploading, processing, then
\* indexed or failed (a task step that does not suspend between two
\* assignments shows only the later one); indexed and failed are final.
C11_StatusLifecycle ==
    [][\A v \in VideoIds :
          /\ (Handled("upload_video") /\ videos_db[v] = "absent"
                 /\ videos_db'[v] # "absent")
                => videos_db'[v] = "uploading"
          /\ (videos_db[v] # "absent" /\ videos_db'[v] # "absent"
                 /\ videos_db'[v] # videos_db[v])
                => /\ StatusRank(videos_db[v]) < StatusRank(videos_db'[v])
                   /\ videos_db[v] \notin {"indexed", "failed"}]_vars

\* C11 witness: a video that was processing has become indexed, another has
\* failed, and a read has been answered.
C11_Witness ==
    /\ \E v \in VideoIds : videos_db[v] = "indexed" /\ tasks[v].n >= 1
    /\ \E v \in VideoIds : videos_db[v] = "failed"
    /\ call.op = "get_video_status" /\ call.status_code = 200

\* C12: whenever a video's status is indexed, its directory of the
\* embeddings store holds exactly one record per scene of the video, each
\* under the id of its scene.
C12_IndexedHasAllEmbeddings ==
    \A v \in VideoIds :
        videos_db[v] = "indexed" =>
            LET files == DirFiles(embeddings, v)
            IN  /\ Len(files) = tasks[v].n
                /\ {files[j].scene_id : j \in 1..Len(files)} = 1..tasks[v].n

\* C14: an upload of a video file larger than MAX_FILE_SIZE is answered with
\* status 400 and "File too large"; no record is added, no file written and
\* no background task scheduled.
C14_TooLargeRejected ==
    [][(/\ Handled("upload_video")
        /\ call'.request.content_type.present
        /\ IsVideoType(call'.request.content_type)
        /\ call'.request.file_size > MAX_FILE_SIZE)
          => /\ call'.status_code = 400
             /\ call'.detail = "File too large"
             /\ UNCHANGED <<videos_db, upload_files, tasks>>]_vars

ReadsAndDelete ==
    {"get_video", "get_video_scenes", "get_video_status", "delete_video"}

\* C16: get_video, get_video_scenes, get_video_status and delete_video
\* called with an id that is not in videos_db answer 404 "Video not found"
\* and leave videos_db, the stored files and the stored embeddings unchanged.
C16_UnknownIdNotFound ==
    [][(/\ call.op = "none"
        /\ call'.op \in ReadsAndDelete
        /\ videos_db[call'.video_id] = "absent")
          => /\ call'.status_code = 404
             /\ call'.detail = "Video not found"
             /\ UNCHANGED <<videos_db, upload_files, embeddings>>]_vars

\* C16 witness: delete_video has answered 404 for an id that is not in
\* videos_db while another video's file and embeddings were stored.
C16_Witness ==
    /\ call.op = "delete_video"
    /\ call.status_code = 404
    /\ videos_db[call.video_id] = "absent"
    /\ upload_files # {}
    /\ embeddings # <<>>

\* C17: get_video_scenes returns scenes only for a video whose status is
\* indexed when it is called; for a video that is uploading, processing or
\* failed it answers 400 and returns no scenes.
C17_ScenesOnlyWhenIndexed ==
    [][Handled("get_video_scenes") =>
          LET st == videos_db[call'.video_id]
          IN  /\ (call'.scenes > 0 \/ call'.status_code = 200)
                    => st = "indexed"
              /\ st = "indexed"
                    => call'.status_code = 200 /\ call'.scenes = MockScenes
              /\ st \in {"uploading", "processing", "failed"}
                    => call'.status_code = 400 /\ call'.scenes = 0]_vars

\* C17 witness: get_video_scenes has answered 400 for a video that is
\* processing.
C17_Witness ==
    /\ call.op = "get_video_scenes"
    /\ call.status_code = 400
    /\ videos_db[call.video_id] = "processing"

\* delete_video has succeeded for v and v has not been stored again since:
\* only delete_video removes a record, and only an upload that stored its
\* record schedules a task.
Deleted(v) ==
    /\ tasks[v].pc \in {"scheduled", "embedding", "finished"}
    /\ videos_db[v] = "absent"

\* C19: once delete_video has succeeded for an id, the id stays absent from
\* videos_db and has no stored embeddings, whatever its background task does
\* afterwards.
C19_DeletionPermanent ==
    [][\A v \in VideoIds :
          Deleted(v) => /\ videos_db'[v] = "absent"
                        /\ ~HasDir(embeddings', v)]_vars

\* Every scheduled task leads to a record with status indexed or failed.
TasksSettle ==
    \A v \in VideoIds :
        (tasks[v].pc = "scheduled") ~> (videos_db[v] \in {"indexed", "failed"})

\* C20 (as claimed): every video whose task runs reaches indexed or failed
\* in videos_db, and a video one of whose processing steps failed ends as
\* failed.
C20_SettlesAsClaimed ==
    /\ TasksSettle
    /\ [](\A v \in VideoIds :
             (tasks[v].pc = "finished" /\ tasks[v].absorbed)
                => tasks[v].status = "failed")

\* C20 (amended): every video whose task runs reaches indexed or failed in
\* videos_db; the step that ends the task writes that status into
\* videos_db; a task that ended before its last embedding was stored ends
\* as failed.  (A failure answered by a fallback does not fail the video.)
C20_SettlesAmended ==
    /\ TasksSettle
    /\ [][\A v \in VideoIds :
             (tasks[v].pc # "finished" /\ tasks'[v].pc = "finished")
                => /\ tasks'[v].status \in {"indexed", "failed"}
                   /\ videos_db'[v] = tasks'[v].status
                   /\ (tasks[v].pc = "embedding" /\ embeddings' = embeddings)
                         => tasks'[v].status = "failed"]_vars

\* C20 witness: a task one of whose steps failed and was answered by a
\* fallback has ended, and its video is indexed.
C20_Witness ==
    \E v \in VideoIds :
        /\ tasks[v].pc = "finished"
        /\ tasks[v].absorbed
        /\ tasks[v].n >= 1
        /\ videos_db[v] = "indexed"

\* C21: when delete_video answers success, the video's file, embeddings
\* and record are gone; when it answers 500, the record, the file and the
\* embeddings are all as they were before the call.
C21_DeleteAllOrNothing ==
    [][Handled("delete_video") =>
          LET v == call'.video_id
          IN  /\ call'.status_code = 200
                    => /\ v \notin upload_files'
                       /\ ~HasDir(embeddings', v)
                       /\ videos_db'[v] = "absent"
              /\ call'.status_code = 500
                    => UNCHANGED <<videos_db, upload_files, embeddings>>]_vars

\* C21, the part that holds: a delete that answers success leaves nothing
\* of the video, and one that answers 500 leaves the record and the
\* embeddings as they were.
C21_DeleteSuccessRemovesAll ==
    [][Handled("delete_video") =>
          LET v == call'.video_id
          IN  /\ call'.status_code = 200
                    => /\ v \notin upload_files'
                       /\ ~HasDir(embeddings', v)
                       /\ videos_db'[v] = "absent"
              /\ call'.status_code = 500
                    => UNCHANGED <<videos_db, embeddings>>]_vars

(***************************************************************************)
(* SemanticSearchService.find_related_scenes                               *)
(***************************************************************************)
MaxRelatedFiles == 4    \* most files in the directory of the first video
MaxRelatedResults == 2  \* largest max_results (limit) drawn

RelatedVectors == {<<1, 1, 0>>, <<0, 0, 1>>}

RelatedContents ==
    {[kind |-> "pkl", embedding |-> e] : e \in RelatedVectors}
        \cup {[kind |-> "bad", embedding |-> <<>>]}

\* The listings of k files <scene_id>.pkl; the i-th file listed is scene i.
RelatedListingsOfLen(k) ==
    {[i \in 1..k |-> [kind |-> c[i].kind, scene_id |-> i,
                      embedding |-> c[i].embedding]] :
        c \in [1..k -> RelatedContents]}

\* The stores drawn: the directory of the first video with at most
\* MaxRelatedFiles files, alone or followed by the directory of the second
\* video with one file.
RelatedStores ==
    LET first == {[video_id |-> VideoIdSeq[1], files |-> l] :
                     l \in UNION {RelatedListingsOfLen(k) :
                                     k \in 0..MaxRelatedFiles}}
        second == {[video_id |-> VideoIdSeq[2], files |-> l] :
                     l \in {<<[kind |-> "pkl", scene_id |-> 1,
                               embedding |-> <<1, 1, 0>>]>>}}
    IN  {<<d>> : d \in first} \cup {<<d, e>> : d \in first, e \in second}

RelatedSceneIdArgs == 1..MaxRelatedFiles

\* limit is an int of the query string, without bounds.
RelatedMaxResultsArgs == (0 - MaxRelatedResults)..MaxRelatedResults

\* os.path.exists(<EMBEDDINGS_DIR>/<video_id>/<scene_id>.pkl)
TargetExists(store, scene_id, video_id) ==
    LET files == DirFiles(store, video_id)
    IN  \E j \in 1..Len(files) :
            files[j].scene_id = scene_id /\ files[j].kind # "other"

\* The file <scene_id>.pkl of the video's directory.
TargetFile(store, scene_id, video_id) ==
    LET files == DirFiles(store, video_id)
    IN  files[CHOOSE j \in 1..Len(files) :
                  files[j].scene_id = scene_id /\ files[j].kind # "other"]

\* The SearchResult built for a related candidate.
RelatedResult(c) ==
    [video_id |-> c.video_id, scene_id |-> c.scene_id,
     relevance_score |-> c.similarity,
     explanation |-> "Related educational content"]

\* find_related_scenes: nothing when the target file does not exist or
\* anything raises; otherwise the max_results + 1 best candidates of the
\* video for the target's vector, without those of the target's scene_id,
\* cut to [:max_results].
FindRelatedScenes(store, scene_id, video_id, max_results) ==
    IF ~TargetExists(store, scene_id, video_id) THEN <<>>
    ELSE LET target == TargetFile(store, scene_id, video_id)
         IN  IF target.kind = "bad" THEN <<>>
             ELSE LET candidates ==
                          FindCandidateScenes(store, target.embedding,
                                              video_id, max_results + 1)
                      others == SelectSeq(candidates,
                                          LAMBDA c : c.scene_id # scene_id)
                      kept == SliceTo(others, max_results)
                  IN  [i \in 1..Len(kept) |-> RelatedResult(kept[i])]

(***************************************************************************)
(* SpecRelated: find_related_scenes applied to every drawn store, scene,   *)
(* video and limit.                                                        *)
(***************************************************************************)
InitRelated ==
    /\ MainIdle
    /\ call \in {[op |-> "find_related_scenes", pc |-> "start", store |-> st,
                  scene_id |-> sc, video_id |-> v, max_results |-> n,
                  result |-> <<>>] :
                    st \in RelatedStores, sc \in RelatedSceneIdArgs,
                    v \in VideoIds, n \in RelatedMaxResultsArgs}

RelatedCall ==
    /\ call.op = "find_related_scenes"
    /\ call.pc = "start"
    /\ call' = [call EXCEPT
                  !.pc = "done",
                  !.result = FindRelatedScenes(call.store, call.scene_id,
                                               call.video_id, call.max_results)]
    /\ UNCHANGED mainVars

NextRelated == RelatedCall

SpecRelated == InitRelated /\ [][NextRelated]_vars

RelatedDone == call.op = "find_related_scenes" /\ call.pc = "done"

\* The target scene has a stored vector that can be read.
TargetReadable ==
    /\ TargetExists(call.store, call.scene_id, call.video_id)
    /\ TargetFile(call.store, call.scene_id, call.video_id).kind = "pkl"

\* The result leaves out the target scene, holds only scenes of video_id,
\* and is empty when the target has no readable stored vector.
RelatedWithinVideo ==
    /\ \A i \in 1..Len(call.result) :
          /\ call.result[i].scene_id # call.scene_id
          /\ call.result[i].video_id = call.video_id
    /\ ~TargetReadable => call.result = <<>>

\* C22: find_related_scenes never returns the target scene, returns only
\* scenes of the same video, returns an empty list when the target has no
\* readable stored vector, and returns at most max_results results (none
\* when max_results is negative).
C22_RelatedScenes ==
    RelatedDone =>
        /\ RelatedWithinVideo
        /\ call.max_results >= 0 => Len(call.result) <= call.max_results
        /\ call.max_results < 0 => call.result = <<>>

\* C22, the part that holds: the same for a max_results that is not
\* negative.
C22_RelatedWhenNotNegative ==
    RelatedDone =>
        /\ RelatedWithinVideo
        /\ call.max_results >= 0 => Len(call.result) <= call.max_results

(***************************************************************************)
(* The response of search_scenes (Spec).                                   *)
(***************************************************************************)
\* SearchResponse(results=final_results, total_results=len(final_results)),
\* built when _generate_suggestions has returned.
SearchResponseOf(s) ==
    [results |-> s.results, total_results |-> Len(s.results)]

\* The response has total_results entries, at most max_results of them, each
\* one of the at most 2 * max_results candidates retrieved for the query.
ResponseWellFormed(s) ==
    LET response == SearchResponseOf(s)
    IN  /\ response.total_results = Len(response.results)
        /\ s.max_results >= 0
              => /\ Len(response.results) <= s.max_results
                 /\ Len(s.candidates) <= 2 * s.max_results
        /\ \A i \in 1..Len(response.results) :
              \E j \in 1..Len(s.candidates) :
                  /\ s.candidates[j].video_id = response.results[i].video_id
                  /\ s.candidates[j].scene_id = response.results[i].scene_id

\* C23: every search that has ended has returned a response whose
\* total_results is the number of its results, with at most max_results
\* results, each of them one of the candidates retrieved for the query.
C23_ResponseShape ==
    SearchEnded => (search.pc = "done" /\ ResponseWellFormed(search))

\* C23, the part that holds: what a search has built when it ends, returned
\* or not, has that shape.
C23_BuiltResultsShape ==
    SearchEnded => ResponseWellFormed(search)

====
